---- MODULE Spec2Model ----
(***************************************************************************)
(* Model of the binformat schema-driven codec generator and of the code it *)
(* generates (Save::read / Save::write), as used by savecodec's main.rs.   *)
(*                                                                         *)
(* Representation:                                                         *)
(*   Option<T>   a sequence of length 0 (None) or 1 (Some)                 *)
(*   Vec<T>      a sequence                                                *)
(*   struct      the sequence of its field values, in field order          *)
(*   integers    Int,  bool  BOOLEAN,  a byte  0..255                      *)
(***************************************************************************)
EXTENDS Integers, Sequences, FiniteSets, TLC

VARIABLES
    format,     \* the parsed Format: endianness, types, items
    drain,      \* build flavour of Read for &[u8]: a failed read_exact empties the slice
    input,      \* bytes behind `reader`
    pos,        \* bytes of `input` consumed so far
    stack,      \* active read() calls, innermost last, each with its `_root` binding
    failing,    \* the innermost read() is returning None
    ctxBuilds,  \* times `let _root = ...` ran in the current pass
    phase,      \* position in the read / write / read-again pipeline
    first,      \* Option: the value of the first read
    raw,        \* bytes emitted by write
    second,     \* Option: the value read back from `raw`
    log,        \* history: one entry per base read performed in the current pass
    wlog,       \* history: one entry per write call of the last write
    document,   \* the schema document handed to parse_file: top-level key -> Value
    parse_pc,   \* the statement of parse_file that runs next
    partial,    \* the locals parse_file has bound so far: endianness, then types
    parsed,     \* Option: what parse_file returned
    generated,  \* Option: the structs format_source emitted, by name
    data,       \* the raw bytes handed to encode_from_raw
    version,    \* the version tag handed to encode_from_raw
    save,       \* Option: the save string encode_from_raw returned, as ASCII codes
    decoded     \* Option: the Result decode_to_raw returned for `save`

parseVars == <<document, parse_pc, partial, parsed, generated>>
envelopeVars == <<data, version, save, decoded>>

vars == <<format, drain, input, pos, stack, failing, ctxBuilds, phase,
          first, raw, second, log, wlog, document, parse_pc, partial, parsed,
          generated, data, version, save, decoded>>

\* ---------------------------------------------------------------- bounds
MaxLen == 6
Byte == {0, 1, 2}

None == <<>>
Some(x) == <<x>>

\* ------------------------------------------------------------ type tables
RUST_TYPES == {"u8", "u16", "u32", "u64", "i8", "i16", "i32", "i64", "f32", "f64"}

RootName == "Save"

IsPrimitive(data_type) == data_type \in RUST_TYPES \cup {"bool"}

\* std::mem::size_of::<T>() of a primitive
PrimSize(data_type) ==
    CASE data_type \in {"u8", "i8", "bool"} -> 1
      [] data_type \in {"u16", "i16"} -> 2
      [] data_type \in {"u32", "i32", "f32"} -> 4
      [] data_type \in {"u64", "i64", "f64"} -> 8

Signed(data_type) == data_type \in {"i8", "i16", "i32", "i64"}

\* ------------------------------------------------------------ schema items
Ref(src, fld) == [src |-> src, fld |-> fld]
Gt(src, fld, k) == [lhs |-> Ref(src, fld), op |-> ">", rhs |-> k]
Condition(expression, advance_if_false) ==
    [expression |-> expression, advance_if_false |-> advance_if_false]
Count(expr) == [count |-> expr]
Item(id, data_type, condition, repetition) ==
    [id |-> id, data_type |-> data_type, condition |-> condition, repetition |-> repetition]

Plain(id, ty) == Item(id, ty, None, None)

Cond(id, ty, expression, advance_if_false) ==
    Item(id, ty, Some(Condition(expression, advance_if_false)), None)
Rep(id, ty, expr) == Item(id, ty, None, Some(Count(expr)))

NoTypes == [t \in {} |-> <<>>]
NoDocument == [k \in {} |-> <<>>]

\* the layout of the specification's worked example (u8 elements)
Fmt1 ==
    [endianness |-> "Little", types |-> NoTypes,
     items |-> << Plain("version", "u16"),
                  Plain("count", "u8"),
                  Cond("flag", "bool", Gt("local", 2, 0), TRUE),
                  Rep("items", "u8", Ref("local", 2)) >>]

\* a conditional two-byte field that reserves no space when absent
Fmt2 ==
    [endianness |-> "Big", types |-> NoTypes,
     items |-> << Plain("n", "u8"),
                  Cond("opt", "u16", Gt("local", 1, 0), FALSE),
                  Plain("tail", "u8") >>]

\* a trailing conditional field with advance_if_false
Fmt3 ==
    [endianness |-> "Little", types |-> NoTypes,
     items |-> << Plain("n", "u8"),
                  Plain("tail", "u8"),
                  Cond("opt", "u16", Gt("local", 1, 0), TRUE) >>]

\* two levels of composite types that consult the root context
Fmt4 ==
    [endianness |-> "Little",
     types |-> [Leaf |-> << Plain("a", "u8"),
                            Cond("b", "bool", Gt("root", 1, 0), TRUE) >>,
                Mid  |-> << Plain("c", "u8"),
                            Cond("leaf", "Leaf", Gt("local", 1, 0), FALSE),
                            Rep("ls", "Leaf", Ref("root", 1)) >>],
     items |-> << Plain("n", "u8"), Plain("mid", "Mid"), Plain("x", "u8") >>]

\* a root that starts with a bool
Fmt5 ==
    [endianness |-> "Little", types |-> NoTypes,
     items |-> << Plain("flag", "bool"),
                  Plain("n", "u8"),
                  Rep("r", "u16", Ref("local", 2)) >>]

\* a conditional composite with advance_if_false
Fmt6 ==
    [endianness |-> "Big",
     types |-> [Pair |-> << Plain("a", "u8"),
                            Cond("b", "u8", Gt("local", 1, 0), FALSE) >>],
     items |-> << Plain("n", "u8"),
                  Cond("p", "Pair", Gt("local", 1, 0), TRUE),
                  Plain("t", "u8") >>]

Formats == {Fmt1, Fmt2, Fmt3, Fmt4, Fmt5, Fmt6}

Streams(n) == UNION {[1..m -> Byte] : m \in 0..n}

\* ------------------------------------------------------------ byte order
RECURSIVE LittleValue(_)
LittleValue(bs) == IF bs = <<>> THEN 0 ELSE Head(bs) + 256 * LittleValue(Tail(bs))

RECURSIVE Reverse(_)
Reverse(s) == IF s = <<>> THEN <<>> ELSE Append(Reverse(Tail(s)), Head(s))

RECURSIVE Pow256(_)
Pow256(n) == IF n = 0 THEN 1 ELSE 256 * Pow256(n - 1)

\* byteorder's read_<type>::<E>() applied to exactly size_of::<type>() bytes
FromBytes(data_type, endianness, bs) ==
    LET u == LittleValue(IF endianness = "Little" THEN bs ELSE Reverse(bs))
    IN  IF Signed(data_type) /\ 2 * u >= Pow256(Len(bs)) THEN u - Pow256(Len(bs)) ELSE u

RECURSIVE LittleBytes(_, _)
LittleBytes(u, w) == IF w = 0 THEN <<>> ELSE <<u % 256>> \o LittleBytes(u \div 256, w - 1)

\* byteorder's write_<type>::<E>(v)
ToBytes(data_type, endianness, v) ==
    LET w == PrimSize(data_type)
        u == IF v < 0 THEN v + Pow256(w) ELSE v
        le == LittleBytes(u, w)
    IN  IF endianness = "Little" THEN le ELSE Reverse(le)

\* ------------------------------------------------------------- expressions
EvalRef(r, locals, ctx) == IF r.src = "root" THEN ctx[r.fld] ELSE locals[r.fld]

EvalCond(e, locals, ctx) == EvalRef(e.lhs, locals, ctx) > e.rhs

\* ------------------------------------------------------ generated structs
\* the declared Rust type of a field
FieldType(item) ==
    IF item.repetition # None THEN [wrap |-> "Vec", of |-> item.data_type]
    ELSE IF item.condition # None THEN [wrap |-> "Option", of |-> item.data_type]
    ELSE [wrap |-> "", of |-> item.data_type]

is_simple_type(t) == t.wrap = "" /\ t.of \in RUST_TYPES

RECURSIVE TakeWhileSimple(_)
TakeWhileSimple(items) ==
    IF items = <<>> \/ ~is_simple_type(FieldType(Head(items))) THEN 0
    ELSE 1 + TakeWhileSimple(Tail(items))

\* simple_types.len(): where the root's reads are split around `let _root`
ContextLen(items) == TakeWhileSimple(items)

FieldsOf(fmt, ty) == IF ty = RootName THEN fmt.items ELSE fmt.types[ty]

RoundUp(n, a) == ((n + a - 1) \div a) * a
Max(a, b) == IF a >= b THEN a ELSE b

\* in-memory layout [size, align] of the generated field and struct types
\* (rustc, 64-bit target): what std::mem::size_of reports
RECURSIVE Layout(_, _), StructLayout(_, _, _, _)
Layout(fmt, t) ==
    IF t.wrap = "Vec" THEN [size |-> 24, align |-> 8]
    ELSE LET inner == IF IsPrimitive(t.of)
                      THEN [size |-> PrimSize(t.of), align |-> PrimSize(t.of)]
                      ELSE StructLayout(fmt, FieldsOf(fmt, t.of), 0, 1)
         IN  IF t.wrap = "Option" /\ t.of # "bool"
             THEN [size |-> RoundUp(inner.size + 1, inner.align), align |-> inner.align]
             ELSE inner
StructLayout(fmt, items, size, align) ==
    IF items = <<>> THEN [size |-> RoundUp(size, align), align |-> align]
    ELSE LET l == Layout(fmt, FieldType(Head(items)))
         IN  StructLayout(fmt, Tail(items), size + l.size, Max(align, l.align))

\* the size of the field's declared Option<#data_type> instead of #data_type
size_of_declared(fmt, data_type) == Layout(fmt, [wrap |-> "Option", of |-> data_type]).size

\* std::mem::size_of::<#data_type>()
size_of(fmt, data_type) == Layout(fmt, [wrap |-> "", of |-> data_type]).size

\* ------------------------------------------------------------ base reads
\* a read_exact that rewinds the reader when it fails
read_exact_rewind(bytes, at, w, drains) ==
    IF at + w <= Len(bytes)
    THEN [ok |-> TRUE, bytes |-> SubSeq(bytes, at + 1, at + w), pos |-> at + w]
    ELSE [ok |-> FALSE, bytes |-> <<>>, pos |-> 0]

\* reader.read_exact(&mut [0u8; w]) on a slice with `at` bytes consumed
read_exact(bytes, at, w, drains) ==
    IF at + w <= Len(bytes)
    THEN [ok |-> TRUE, bytes |-> SubSeq(bytes, at + 1, at + w), pos |-> at + w]
    ELSE [ok |-> FALSE, bytes |-> <<>>, pos |-> IF drains THEN Len(bytes) ELSE at]

\* a base read that takes only the byte 0x01 for true
handle_simple_read_strict(data_type, endianness, bytes, at, drains) ==
    LET r == read_exact(bytes, at, PrimSize(data_type), drains)
    IN  IF ~r.ok THEN [val |-> None, pos |-> r.pos]
        ELSE IF data_type = "bool"
             THEN [val |-> Some(r.bytes[1] = 1), pos |-> r.pos]
             ELSE [val |-> Some(FromBytes(data_type, endianness, r.bytes)), pos |-> r.pos]

\* the base read statement of a primitive field: an Option and the new cursor
handle_simple_read(data_type, endianness, bytes, at, drains) ==
    LET r == read_exact(bytes, at, PrimSize(data_type), drains)
    IN  IF ~r.ok THEN [val |-> None, pos |-> r.pos]
        ELSE IF data_type = "bool"
             THEN [val |-> Some(r.bytes[1] # 0), pos |-> r.pos]
             ELSE [val |-> Some(FromBytes(data_type, endianness, r.bytes)), pos |-> r.pos]

\* ------------------------------------------------------- read() frames
\* a fresh activation of #ty::read with `_root` bound to ctx (the root's read()
\* starts with no `_root`: it binds it itself)
Frame(ty, ctx) == [ty |-> ty, idx |-> 1, vals |-> <<>>, acc |-> <<>>, root |-> ctx]

\* a read() that hands its callee a context made of its own fields
CalleeContext_own(frame) == frame.vals

\* the `&_root` argument a read() passes to the composite read() it calls
CalleeContext(frame) == frame.root

\* `let #id = #read?` for the statement create_statement composed around a base
\* read that produced r (an Option): the frame afterwards, and whether `?` returned
Apply(frame, item, r) ==
    IF item.condition # None
    THEN \* if #expr { Some(#statement) } ...  followed by `?`
         [top |-> [frame EXCEPT !.vals = Append(@, r), !.idx = @ + 1], fail |-> FALSE]
    ELSE IF r = None
    THEN [top |-> frame, fail |-> TRUE]
    ELSE IF item.repetition # None
    THEN [top |-> [frame EXCEPT !.acc = Append(@, r[1])], fail |-> FALSE]
    ELSE [top |-> [frame EXCEPT !.vals = Append(@, r[1]), !.idx = @ + 1], fail |-> FALSE]

Top == stack[Len(stack)]
TopFields == FieldsOf(format, Top.ty)
Cur == TopFields[Top.idx]
IsRootFrame == Len(stack) = 1
SetTop(f) == [stack EXCEPT ![Len(stack)] = f]

Reading == phase \in {"read", "reread"}

\* the innermost read() is about to run the statement of field Top.idx
AtField ==
    /\ Reading /\ stack # <<>> /\ ~failing
    /\ Top.idx <= Len(TopFields)
    /\ IsRootFrame /\ Top.idx > ContextLen(format.items) => ctxBuilds > 0

CondTrue(item) ==
    IF item.condition = None THEN TRUE
    ELSE EvalCond(item.condition[1].expression, Top.vals, Top.root)

RepCount(item) == EvalRef(item.repetition[1].count, Top.vals, Top.root)

\* a range that includes its upper end: 0..=#expr
MoreToRead_inclusive(item) ==
    IF item.repetition = None THEN TRUE ELSE Len(Top.acc) <= RepCount(item)

\* the range 0..#expr still has an index to map
MoreToRead(item) ==
    IF item.repetition = None THEN TRUE ELSE Len(Top.acc) < RepCount(item)

LogEntry(kind, w, r) ==
    [kind |-> kind, ty |-> Top.ty, fld |-> Top.idx, depth |-> Len(stack),
     at |-> pos, w |-> w, to |-> r.pos, ok |-> r.ok]

\* ---------------------------------------------------- the pass pipeline
\* read() of the root returned r (an Option)
FinishPass(r) ==
    IF phase = "read"
    THEN /\ first' = r
         /\ phase' = IF r = None THEN "done" ELSE "decoded"
         /\ UNCHANGED second
    ELSE /\ second' = r
         /\ phase' = "done"
         /\ UNCHANGED first

\* `let _root = Context { ... }` between the initial and the remaining reads
BuildContext ==
    /\ Reading /\ stack # <<>> /\ ~failing /\ IsRootFrame
    /\ ctxBuilds = 0
    /\ Top.idx = ContextLen(format.items) + 1
    /\ stack' = SetTop([Top EXCEPT !.root = SubSeq(Top.vals, 1, ContextLen(format.items))])
    /\ ctxBuilds' = ctxBuilds + 1
    /\ UNCHANGED <<parseVars, envelopeVars>>
    /\ UNCHANGED <<format, drain, input, pos, failing, phase, first, raw, second, log, wlog>>

\* a base read of a primitive: a plain field, a conditional field whose
\* condition holds, or the next element of a repeated field
ReadPrimitive ==
    /\ AtField
    /\ IsPrimitive(Cur.data_type)
    /\ CondTrue(Cur) /\ MoreToRead(Cur)
    /\ LET r == handle_simple_read(Cur.data_type, format.endianness, input, pos, drain)
           a == Apply(Top, Cur, r.val)
       IN  /\ stack' = SetTop(a.top)
           /\ failing' = a.fail
           /\ pos' = r.pos
           /\ log' = Append(log, LogEntry("read", PrimSize(Cur.data_type), [pos |-> r.pos, ok |-> r.val # None]))
    /\ UNCHANGED <<parseVars, envelopeVars>>
    /\ UNCHANGED <<format, drain, input, ctxBuilds, phase, first, raw, second, wlog>>

\* #data_type::read(reader, &_root): enter the composite's read()
CallComposite ==
    /\ AtField
    /\ ~IsPrimitive(Cur.data_type)
    /\ CondTrue(Cur) /\ MoreToRead(Cur)
    /\ stack' = Append(stack, Frame(Cur.data_type, CalleeContext(Top)))
    /\ UNCHANGED <<parseVars, envelopeVars>>
    /\ UNCHANGED <<format, drain, input, pos, failing, ctxBuilds, phase,
                   first, raw, second, log, wlog>>

\* the else branch of a conditional read
CondFalse ==
    /\ AtField
    /\ ~CondTrue(Cur)
    /\ IF Cur.condition[1].advance_if_false
       THEN LET w == size_of(format, Cur.data_type)
                r == read_exact(input, pos, w, drain)
            IN  /\ pos' = r.pos
                /\ log' = Append(log, LogEntry("skip", w, r))
                /\ IF r.ok
                   THEN /\ stack' = SetTop([Top EXCEPT !.vals = Append(@, None), !.idx = @ + 1])
                        /\ failing' = FALSE
                   ELSE /\ failing' = TRUE
                        /\ UNCHANGED stack
       ELSE /\ stack' = SetTop([Top EXCEPT !.vals = Append(@, None), !.idx = @ + 1])
            /\ UNCHANGED <<pos, failing, log>>
    /\ UNCHANGED <<parseVars, envelopeVars>>
    /\ UNCHANGED <<format, drain, input, ctxBuilds, phase, first, raw, second, wlog>>

\* (0..#expr).map(..).collect() has produced all its elements
CollectRepeated ==
    /\ AtField
    /\ Cur.repetition # None
    /\ ~MoreToRead(Cur)
    /\ stack' = SetTop([Top EXCEPT !.vals = Append(@, Top.acc), !.acc = <<>>, !.idx = @ + 1])
    /\ UNCHANGED <<parseVars, envelopeVars>>
    /\ UNCHANGED <<format, drain, input, pos, failing, ctxBuilds, phase,
                   first, raw, second, log, wlog>>

\* Some(Self { ... }): the innermost read() returns its record
ReturnSome ==
    /\ Reading /\ stack # <<>> /\ ~failing
    /\ Top.idx > Len(TopFields)
    /\ IsRootFrame => ctxBuilds > 0
    /\ IF IsRootFrame
       THEN /\ stack' = <<>>
            /\ FinishPass(Some(Top.vals))
            /\ UNCHANGED failing
       ELSE LET parent == stack[Len(stack) - 1]
                item == FieldsOf(format, parent.ty)[parent.idx]
                a == Apply(parent, item, Some(Top.vals))
            IN  /\ stack' = Append(SubSeq(stack, 1, Len(stack) - 2), a.top)
                /\ failing' = a.fail
                /\ UNCHANGED <<phase, first, second>>
    /\ UNCHANGED <<parseVars, envelopeVars>>
    /\ UNCHANGED <<format, drain, input, pos, ctxBuilds, raw, log, wlog>>

\* a `?` fired: the innermost read() returns None to its caller
ReturnNone ==
    /\ Reading /\ stack # <<>> /\ failing
    /\ IF IsRootFrame
       THEN /\ stack' = <<>>
            /\ failing' = FALSE
            /\ FinishPass(None)
       ELSE LET parent == stack[Len(stack) - 1]
                item == FieldsOf(format, parent.ty)[parent.idx]
                a == Apply(parent, item, None)
            IN  /\ stack' = Append(SubSeq(stack, 1, Len(stack) - 2), a.top)
                /\ failing' = a.fail
                /\ UNCHANGED <<phase, first, second>>
    /\ UNCHANGED <<parseVars, envelopeVars>>
    /\ UNCHANGED <<format, drain, input, pos, ctxBuilds, raw, log, wlog>>

\* ------------------------------------------------------------ base writes
\* a sink: the bytes it holds, whether every write so far succeeded, its
\* capacity (-1: a growable Vec), and one log entry per write call it received
Sink(cap) == [out |-> <<>>, ok |-> TRUE, cap |-> cap, log |-> <<>>]

\* writer.write_all(bytes), issued by the statement of field `fld` of struct `ty`
write_all(s, bytes, ty, fld, kind) ==
    LET fits == IF s.cap < 0 THEN TRUE ELSE Len(s.out) + Len(bytes) <= s.cap
        e == [ty |-> ty, fld |-> fld, kind |-> kind, at |-> Len(s.out),
              bytes |-> bytes, ok |-> fits]
    IN  IF fits
        THEN [s EXCEPT !.out = @ \o bytes, !.log = Append(@, e)]
        ELSE [s EXCEPT !.out = @ \o SubSeq(bytes, 1, s.cap - Len(s.out)),
                       !.log = Append(@, e), !.ok = FALSE]

Zeros(w) == [i \in 1..w |-> 0]

RECURSIVE write_struct(_, _, _, _), write_fields(_, _, _, _, _, _),
          generate_write_call(_, _, _, _, _), write_elems(_, _, _, _, _, _),
          handle_simple_write(_, _, _, _, _)

\* the base write statement of field `fld` of struct `ty`, given the value x
handle_simple_write(fmt, ty, fld, x, s) ==
    LET data_type == FieldsOf(fmt, ty)[fld].data_type
    IN  IF data_type \in RUST_TYPES
        THEN write_all(s, ToBytes(data_type, fmt.endianness, x), ty, fld, "value")
        ELSE IF data_type = "bool"
        THEN write_all(s, <<IF x THEN 1 ELSE 0>>, ty, fld, "value")
        ELSE write_struct(fmt, data_type, x, s)

\* a repeated write that stops one element early
write_elems_short(fmt, ty, fld, xs, j, s) ==
    IF j >= Len(xs) THEN s
    ELSE IF ~s.ok THEN s
    ELSE write_elems(fmt, ty, fld, xs, j + 1, handle_simple_write(fmt, ty, fld, xs[j], s))

\* self.#id.iter().map(|#id| #statement).collect::<Option<Vec<_>>>()
write_elems(fmt, ty, fld, xs, j, s) ==
    IF j > Len(xs) THEN s
    ELSE IF ~s.ok THEN s
    ELSE write_elems(fmt, ty, fld, xs, j + 1, handle_simple_write(fmt, ty, fld, xs[j], s))

\* a conditional write that reserves nothing for an absent value
generate_write_call_no_pad(fmt, ty, fld, v, s) ==
    LET item == FieldsOf(fmt, ty)[fld]
    IN  IF item.repetition # None
        THEN write_elems(fmt, ty, fld, v, 1, s)
        ELSE IF item.condition # None
        THEN IF v # None THEN handle_simple_write(fmt, ty, fld, v[1], s) ELSE s
        ELSE handle_simple_write(fmt, ty, fld, v, s)

\* the statement generate_write_calls emits for field `fld` of `ty` holding v
generate_write_call(fmt, ty, fld, v, s) ==
    LET item == FieldsOf(fmt, ty)[fld]
    IN  IF item.repetition # None
        THEN write_elems(fmt, ty, fld, v, 1, s)
        ELSE IF item.condition # None
        THEN IF v # None
             THEN handle_simple_write(fmt, ty, fld, v[1], s)
             ELSE IF item.condition[1].advance_if_false
                  THEN write_all(s, Zeros(size_of(fmt, item.data_type)), ty, fld, "zeros")
                  ELSE s
        ELSE handle_simple_write(fmt, ty, fld, v, s)

\* a write() that runs its remaining statements after one has failed
write_fields_continue(fmt, ty, n, vals, i, s) ==
    IF i > n THEN s
    ELSE write_fields(fmt, ty, n, vals, i + 1, generate_write_call(fmt, ty, i, vals[i], s))

\* the statements of #struct_name::write from the i-th on, each followed by `?`
write_fields(fmt, ty, n, vals, i, s) ==
    IF i > n THEN s
    ELSE IF ~s.ok THEN s
    ELSE write_fields(fmt, ty, n, vals, i + 1, generate_write_call(fmt, ty, i, vals[i], s))

\* #struct_name::write(&self, writer)
write_struct(fmt, ty, val, s) == write_fields(fmt, ty, Len(FieldsOf(fmt, ty)), val, 1, s)

\* ------------------------------------------------------------------ crc32
\* a 32-bit word is the pair <<high 16 bits, low 16 bits>>
RECURSIVE Xor(_, _)
Xor(a, b) ==
    IF a = 0 THEN b
    ELSE IF b = 0 THEN a
    ELSE ((a + b) % 2) + 2 * Xor(a \div 2, b \div 2)

\* one bit of the reflected CRC-32 (polynomial 0xEDB88320)
CrcRound(c) ==
    LET s == << c[1] \div 2, (c[2] \div 2) + (c[1] % 2) * 32768 >>
    IN  IF c[2] % 2 = 1 THEN << Xor(s[1], 60856), Xor(s[2], 33568) >> ELSE s

RECURSIVE CrcRounds(_, _)
CrcRounds(c, n) == IF n = 0 \/ c[1] < 0 THEN c ELSE CrcRounds(CrcRound(c), n - 1)

RECURSIVE CrcUpdate(_, _)
CrcUpdate(c, bytes) ==
    IF bytes = <<>> \/ c[1] < 0 THEN c
    ELSE CrcUpdate(CrcRounds(<< c[1], Xor(c[2], Head(bytes)) >>, 8), Tail(bytes))

\* crc32fast::hash(bytes).to_be_bytes()
Crc32Be(bytes) ==
    LET c == CrcUpdate(<<65535, 65535>>, bytes)
        hi == 65535 - c[1]
        lo == 65535 - c[2]
    IN  << hi \div 256, hi % 256, lo \div 256, lo % 256 >>

\* --------------------------------------------------- write and read again
\* Save::write into an empty Vec
write ==
    /\ phase = "decoded"
    /\ LET s == write_struct(format, RootName, first[1], Sink(-1))
       IN  /\ raw' = s.out
           /\ wlog' = s.log
    /\ phase' = "encoded"
    /\ UNCHANGED <<parseVars, envelopeVars>>
    /\ UNCHANGED <<format, drain, input, pos, stack, failing, ctxBuilds,
                   first, second, log>>

\* Save::write into a sink that takes at most cap bytes (a &mut [u8] of that size)
MaxCap == 3

write_bounded ==
    /\ phase = "decoded"
    /\ \E cap \in 0..MaxCap :
          LET s == write_struct(format, RootName, first[1], Sink(cap))
          IN  /\ raw' = s.out
              /\ wlog' = s.log
              /\ phase' = IF s.ok THEN "encoded" ELSE "write_failed"
    /\ UNCHANGED <<parseVars, envelopeVars>>
    /\ UNCHANGED <<format, drain, input, pos, stack, failing, ctxBuilds,
                   first, second, log>>

\* Save::to_str up to the envelope: write into a Vec, append the checksum
write_with_checksum ==
    /\ phase = "decoded"
    /\ LET s == write_struct(format, RootName, first[1], Sink(-1))
       IN  /\ raw' = s.out \o Crc32Be(s.out)
           /\ wlog' = s.log
    /\ phase' = "encoded"
    /\ UNCHANGED <<parseVars, envelopeVars>>
    /\ UNCHANGED <<format, drain, input, pos, stack, failing, ctxBuilds,
                   first, second, log>>

\* Save::read(&mut raw.as_slice()) on the bytes just written
read_again ==
    /\ phase = "encoded"
    /\ input' = raw
    /\ pos' = 0
    /\ stack' = <<Frame(RootName, <<>>)>>
    /\ failing' = FALSE
    /\ ctxBuilds' = 0
    /\ log' = <<>>
    /\ phase' = "reread"
    /\ UNCHANGED <<parseVars, envelopeVars>>
    /\ UNCHANGED <<format, drain, first, raw, second, wlog>>

\* ------------------------------------------------------------ specification
\* Save::read on an arbitrary byte stream, then write, then read again
Init ==
    /\ format \in Formats
    /\ drain \in BOOLEAN
    /\ input \in Streams(MaxLen)
    /\ pos = 0
    /\ stack = <<Frame(RootName, <<>>)>>
    /\ failing = FALSE
    /\ ctxBuilds = 0
    /\ phase = "read"
    /\ first = None
    /\ raw = <<>>
    /\ second = None
    /\ log = <<>>
    /\ wlog = <<>>
    /\ document = NoDocument /\ parse_pc = "idle" /\ partial = <<>> /\ parsed = None
    /\ generated = None
    /\ data = <<>> /\ version = 0 /\ save = None /\ decoded = None

Next ==
    \/ BuildContext
    \/ ReadPrimitive
    \/ CallComposite
    \/ CondFalse
    \/ CollectRepeated
    \/ ReturnSome
    \/ ReturnNone
    \/ write
    \/ write_with_checksum
    \/ write_bounded
    \/ read_again

Spec == Init /\ [][Next]_vars

\* ------------------------------------- records built by the caller
\* Save::write on a record the caller built rather than read, then read back
MaxElems == 2

PrimVals(data_type) ==
    CASE data_type = "bool" -> BOOLEAN
      [] data_type = "u8" -> {0, 1}
      [] OTHER -> {0, 258}

SeqsUpTo(S, n) == UNION {[1..m -> S] : m \in 0..n}

RECURSIVE RecordsOf(_, _), FieldSeqs(_, _), FieldVals(_, _)
\* the values the declared Rust type of a field admits
FieldVals(fmt, item) ==
    LET base == IF IsPrimitive(item.data_type) THEN PrimVals(item.data_type)
                ELSE RecordsOf(fmt, item.data_type)
    IN  IF item.repetition # None THEN SeqsUpTo(base, MaxElems)
        ELSE IF item.condition # None THEN {None} \cup {Some(b) : b \in base}
        ELSE base
FieldSeqs(fmt, items) ==
    IF items = <<>> THEN {<<>>}
    ELSE {<<v>> \o rest : v \in FieldVals(fmt, Head(items)), rest \in FieldSeqs(fmt, Tail(items))}
RecordsOf(fmt, ty) == FieldSeqs(fmt, FieldsOf(fmt, ty))

InitEnc ==
    /\ format \in Formats
    /\ drain \in BOOLEAN
    /\ first \in {Some(x) : x \in RecordsOf(format, RootName)}
    /\ phase = "decoded"
    /\ input = <<>>
    /\ pos = 0
    /\ stack = <<>>
    /\ failing = FALSE
    /\ ctxBuilds = 0
    /\ raw = <<>>
    /\ second = None
    /\ log = <<>>
    /\ wlog = <<>>
    /\ document = NoDocument /\ parse_pc = "idle" /\ partial = <<>> /\ parsed = None
    /\ generated = None
    /\ data = <<>> /\ version = 0 /\ save = None /\ decoded = None

SpecEnc == InitEnc /\ [][Next]_vars

\* ------------------------------------------------- the schema document
\* serde_yaml::Value. A string is held as the sequence of its tokens, a mapping
\* as a function from key to Value
Str(toks) == [kind |-> "str", s |-> toks]
Bool(b) == [kind |-> "bool", b |-> b]
Number(i) == [kind |-> "int", i |-> i]
Sequence(xs) == [kind |-> "seq", xs |-> xs]
Mapping(m) == [kind |-> "map", m |-> m]

as_str(v) == IF v.kind = "str" THEN Some(v.s) ELSE None
as_bool(v) == IF v.kind = "bool" THEN Some(v.b) ELSE None
as_sequence(v) == IF v.kind = "seq" THEN Some(v.xs) ELSE None
as_mapping(v) == IF v.kind = "map" THEN Some(v.m) ELSE None

\* Mapping::get / BTreeMap::get
get(m, key) == IF key \in DOMAIN m THEN Some(m[key]) ELSE None
\* Value::get: None on anything but a mapping
value_get(v, key) == IF v.kind = "map" THEN get(v.m, key) ELSE None

\* Option::and_then
and_then(o, F(_)) == IF o = None THEN None ELSE F(o[1])

\* syn::parse_str for the targets parse.rs asks for
IdentTokens == {"n", "opt", "xs", "a", "u8", "u16", "bool", "Leaf"}
\* types that parse but are no Type::Path
OtherTypeTokens == {"[u8]"}
NumberTokens == {"0", "1"}
parse_ident(toks) == IF Len(toks) = 1 /\ toks[1] \in IdentTokens THEN Some(toks[1]) ELSE None
parse_type(toks) ==
    IF Len(toks) = 1 /\ toks[1] \in IdentTokens \cup OtherTypeTokens THEN Some(toks[1]) ELSE None
parse_expr_binary(toks) ==
    IF Len(toks) = 3 /\ toks[1] \in IdentTokens /\ toks[2] = ">" /\ toks[3] \in NumberTokens
    THEN Some([lhs |-> toks[1], op |-> toks[2], rhs |-> toks[3]])
    ELSE None
parse_expr(toks) ==
    IF Len(toks) = 1 /\ toks[1] \in IdentTokens \cup NumberTokens THEN Some(toks[1])
    ELSE parse_expr_binary(toks)

RECURSIVE take_while(_, _)
\* chars.by_ref().take_while(|&c| c != stop).collect()
take_while(toks, stop) ==
    IF toks = <<>> THEN <<>>
    ELSE IF Head(toks) = stop THEN <<>>
    ELSE <<Head(toks)>> \o take_while(Tail(toks), stop)

\* what by_ref() leaves after take_while: the stopping token is consumed too
after_take_while(toks, stop) ==
    SubSeq(toks, Len(take_while(toks, stop)) + 2, Len(toks))

parse_repetition(value) ==
    LET discriminant == take_while(value, "(")
        expression == take_while(after_take_while(value, "("), ")")
    IN  IF discriminant = <<"Count">>
        THEN IF parse_expr(expression) = None THEN None
             ELSE Some(Count(parse_expr(expression)[1]))
        ELSE None

\* Parse an individual item
parse_item(item) ==
    LET id == and_then(and_then(get(item, "id"), as_str), parse_ident)
        data_type == and_then(and_then(get(item, "type"), as_str), parse_type)
        condition_expr == and_then(and_then(get(item, "if"), as_str), parse_expr_binary)
        repetition == and_then(and_then(get(item, "repeat"), as_str), parse_repetition)
        flag == and_then(get(item, "advance_if_false"), as_bool)
        advance_if_false == IF flag = None THEN FALSE ELSE flag[1]
        condition == IF condition_expr = None THEN None
                     ELSE Some(Condition(condition_expr[1], advance_if_false))
    IN  IF id = None THEN None
        ELSE IF data_type = None THEN None
        ELSE Some(Item(id[1], data_type[1], condition, repetition))

RECURSIVE parse_sequence(_)
\* item.iter().filter_map(|value| value.as_mapping().and_then(parse_item)).collect()
parse_sequence(item) ==
    IF item = <<>> THEN <<>>
    ELSE LET r == and_then(as_mapping(Head(item)), parse_item)
         IN  (IF r = None THEN <<>> ELSE <<r[1]>>) \o parse_sequence(Tail(item))

\* one (name, items) pair of the types mapping
parse_defined_type(name, items) ==
    IF parse_ident(<<name>>) = None THEN None
    ELSE IF as_sequence(items) = None THEN None
    ELSE Some(<<name, parse_sequence(as_sequence(items)[1])>>)

\* item.iter().filter_map(parse_defined_type).collect()
parse_defined_types(item) ==
    [name \in {k \in DOMAIN item : parse_defined_type(k, item[k]) # None} |->
        parse_defined_type(name, item[name])[1][2]]

\* a parse_meta that takes any endian entry for big endian
parse_meta_any(meta) ==
    IF value_get(meta, "endian") # None THEN "Big" ELSE "Little"

\* Parses the meta entry to find the endianness, defaulting to little endian
parse_meta(meta) ==
    LET endianness == value_get(meta, "endian")
        is_be == IF endianness = None THEN FALSE ELSE as_str(endianness[1]) = Some(<<"be">>)
    IN  IF is_be THEN "Big" ELSE "Little"

\* parse_file returns None from one of its `?`
ParseFails ==
    /\ parsed' = None
    /\ parse_pc' = "done"
    /\ UNCHANGED partial

codecVars == <<format, drain, input, pos, stack, failing, ctxBuilds, phase,
               first, raw, second, log, wlog>>

\* let endianness = parse_meta(items.get("meta")?);
parse_file_meta ==
    /\ parse_pc = "meta"
    /\ IF get(document, "meta") = None
       THEN ParseFails
       ELSE /\ partial' = <<parse_meta(document["meta"])>>
            /\ parse_pc' = "types"
            /\ UNCHANGED parsed
    /\ UNCHANGED <<document, generated, codecVars, envelopeVars>>

\* let types = parse_defined_types(items.get("types")?.as_mapping()?);
parse_file_types ==
    /\ parse_pc = "types"
    /\ IF and_then(get(document, "types"), as_mapping) = None
       THEN ParseFails
       ELSE /\ partial' = Append(partial, parse_defined_types(document["types"].m))
            /\ parse_pc' = "items"
            /\ UNCHANGED parsed
    /\ UNCHANGED <<document, generated, codecVars, envelopeVars>>

\* let items = parse_sequence(items.get("items")?.as_sequence()?); Some(Format {..})
parse_file_items ==
    /\ parse_pc = "items"
    /\ IF and_then(get(document, "items"), as_sequence) = None
       THEN ParseFails
       ELSE /\ parsed' = Some([endianness |-> partial[1], types |-> partial[2],
                               items |-> parse_sequence(document["items"].xs)])
            /\ parse_pc' = "done"
            /\ UNCHANGED partial
    /\ UNCHANGED <<document, generated, codecVars, envelopeVars>>

\* ------------------------------------------------------ code generation
\* the base read / write statement emitted for a field of type data_type
read_statement(data_type) ==
    IF data_type \in RUST_TYPES THEN [call |-> "reader.read", of |-> data_type]
    ELSE IF data_type = "bool" THEN [call |-> "reader.read_u8 != 0", of |-> "u8"]
    ELSE [call |-> "read", of |-> data_type]
write_statement(data_type) ==
    IF data_type \in RUST_TYPES THEN [call |-> "writer.write", of |-> data_type]
    ELSE IF data_type = "bool" THEN [call |-> "writer.write_u8 1/0", of |-> "u8"]
    ELSE [call |-> "write", of |-> data_type]

\* if let Type::Path(..) = data_type && is_simple_type(path)
IsTypePath(data_type) == data_type \in IdentTokens

\* one `let #id = #read?` per item, in the order of the items
generate_read_calls(items) ==
    [i \in DOMAIN items |-> [id |-> items[i].id, stmt |-> read_statement(items[i].data_type)]]
generate_write_calls(items) ==
    [i \in DOMAIN items |-> [id |-> items[i].id, stmt |-> write_statement(items[i].data_type)]]

\* a generate_struct whose root read() runs the remaining reads first
generate_struct_rest_first(root_name, struct_name, items) ==
    LET ids == [i \in DOMAIN items |-> items[i].id]
        reads == generate_read_calls(items)
        k == ContextLen(items)
    IN  [ids |-> ids,
         context |-> IF struct_name = root_name THEN SubSeq(ids, 1, k) ELSE <<>>,
         read |-> IF struct_name = root_name
                  THEN SubSeq(reads, k + 1, Len(reads))
                       \o <<[id |-> "_root", stmt |-> [call |-> "Context", of |-> root_name]]>>
                       \o SubSeq(reads, 1, k)
                  ELSE reads,
         write |-> generate_write_calls(items)]

\* the struct generate_struct emits for `items`; its read() binds _root after
\* the leading simple fields when it is the root and receives it otherwise
generate_struct(root_name, struct_name, items) ==
    LET ids == [i \in DOMAIN items |-> items[i].id]
        reads == generate_read_calls(items)
        k == ContextLen(items)
    IN  [ids |-> ids,
         context |-> IF struct_name = root_name THEN SubSeq(ids, 1, k) ELSE <<>>,
         read |-> IF struct_name = root_name
                  THEN SubSeq(reads, 1, k) \o <<[id |-> "_root", stmt |-> [call |-> "Context", of |-> root_name]]>>
                       \o SubSeq(reads, k + 1, Len(reads))
                  ELSE reads,
         write |-> generate_write_calls(items)]

\* generate: None when generate_read_calls aborts on a type that is no path
generate(struct_name, fmt) ==
    LET lists == {fmt.items} \cup {fmt.types[t] : t \in DOMAIN fmt.types}
    IN  IF \E xs \in lists : \E i \in DOMAIN xs : ~IsTypePath(xs[i].data_type)
        THEN None
        ELSE Some([name \in DOMAIN fmt.types \cup {struct_name} |->
                      IF name = struct_name
                      THEN generate_struct(struct_name, struct_name, fmt.items)
                      ELSE generate_struct(struct_name, name, fmt.types[name])])

\* format_source once parse_file has returned: abort on None, generate otherwise
format_source ==
    /\ parse_pc = "done"
    /\ generated' = IF parsed = None THEN None ELSE generate(RootName, parsed[1])
    /\ parse_pc' = "expanded"
    /\ UNCHANGED <<document, partial, parsed, codecVars, envelopeVars>>

\* ----------------------------------------------- documents to parse
MaxItems == 2
MaxTypeItems == 1

T(s) == Str(<<s>>)
GoodPlain == Mapping([id |-> T("n"), type |-> T("u8")])
GoodConditional ==
    Mapping([id |-> T("opt"), type |-> T("u16"), if |-> Str(<<"n", ">", "0">>),
             advance_if_false |-> Bool(TRUE)])
GoodRepeated ==
    Mapping([id |-> T("xs"), type |-> T("Leaf"), repeat |-> Str(<<"Count", "(", "n", ")">>)])
NotAMapping == T("n")
NoId == Mapping([type |-> T("u8")])
NoType == Mapping([id |-> T("n")])
IdNotString == Mapping([id |-> Number(7), type |-> T("u8")])
BadId == Mapping([id |-> T("9x"), type |-> T("u8")])
BadType == Mapping([id |-> T("n"), type |-> Str(<<"Vec", "<">>)])
SliceType == Mapping([id |-> T("n"), type |-> T("[u8]")])
BadIf == Mapping([id |-> T("opt"), type |-> T("u16"), if |-> Str(<<"n", ">">>)])
BadRepeatKind ==
    Mapping([id |-> T("xs"), type |-> T("u8"), repeat |-> Str(<<"Times", "(", "n", ")">>)])
BadRepeatCount ==
    Mapping([id |-> T("xs"), type |-> T("u8"), repeat |-> Str(<<"Count", "(", "n", ">", ")">>)])

Descriptors ==
    {GoodPlain, GoodConditional, GoodRepeated, NotAMapping, NoId, NoType, IdNotString,
     BadId, BadType, SliceType, BadIf, BadRepeatKind, BadRepeatCount}
TypeDescriptors == {GoodPlain, NotAMapping, NoType}

Metas ==
    {Mapping(NoDocument), Mapping([endian |-> T("be")]), Mapping([endian |-> T("le")]),
     Mapping([endian |-> T("BE")]), Mapping([endian |-> Bool(TRUE)]), T("be")}
TypeMaps ==
    {Sequence(<<>>), Mapping(NoDocument), Mapping([Leaf |-> T("u8")]),
     Mapping("9x" :> Sequence(<<GoodPlain>>))}
    \cup {Mapping([Leaf |-> Sequence(xs)]) : xs \in SeqsUpTo(TypeDescriptors, MaxTypeItems)}
ItemLists ==
    {Mapping(NoDocument)} \cup {Sequence(xs) : xs \in SeqsUpTo(Descriptors, MaxItems)}

Optional(key, S) == {NoDocument} \cup {key :> v : v \in S}
Documents ==
    {m @@ t @@ i : m \in Optional("meta", Metas), t \in Optional("types", TypeMaps),
                   i \in Optional("items", ItemLists)}

\* parse_file on a document; the codec is idle
InitParse ==
    /\ document \in Documents
    /\ parse_pc = "meta"
    /\ partial = <<>>
    /\ parsed = None
    /\ generated = None
    /\ data = <<>> /\ version = 0 /\ save = None /\ decoded = None
    /\ format = Fmt1 /\ drain = FALSE /\ input = <<>> /\ pos = 0 /\ stack = <<>>
    /\ failing = FALSE /\ ctxBuilds = 0 /\ phase = "done"
    /\ first = None /\ raw = <<>> /\ second = None /\ log = <<>> /\ wlog = <<>>

NextParse ==
    \/ parse_file_meta
    \/ parse_file_types
    \/ parse_file_items
    \/ format_source

SpecParse == InitParse /\ [][NextParse]_vars

\* ------------------------------------------------------------ the envelope
\* b"therealmisalie"
CIPHER_KEY == <<116, 104, 101, 114, 101, 97, 108, 109, 105, 115, 97, 108, 105, 101>>

\* bytes.zip(CIPHER_KEY.iter().cycle()).map(|(byte, key)| byte ^ key)
cipher(bytes) ==
    [i \in DOMAIN bytes |-> Xor(bytes[i], CIPHER_KEY[((i - 1) % Len(CIPHER_KEY)) + 1])]

RECURSIVE Adler(_, _, _)
\* the Adler-32 sums <<a, b>> of bytes, continued from a and b
Adler(bytes, a, b) ==
    IF bytes = <<>> THEN <<a, b>>
    ELSE Adler(Tail(bytes), (a + Head(bytes)) % 65521, (b + ((a + Head(bytes)) % 65521)) % 65521)

Adler32Be(bytes) ==
    LET s == Adler(bytes, 1, 0)
    IN  <<s[2] \div 256, s[2] % 256, s[1] \div 256, s[1] % 256>>

\* a zlib stream for bytes: header 78 9C, one final stored block, Adler-32
deflate(bytes) ==
    LET n == Len(bytes)
    IN  <<120, 156, 1, n % 256, n \div 256, 255 - (n % 256), 255 - (n \div 256)>>
        \o bytes \o Adler32Be(bytes)

\* ZlibDecoder::read_to_end on such a stream: Ok(bytes) or Err
inflate(stream) ==
    IF Len(stream) < 11 THEN [ok |-> FALSE, err |-> "CompressError"]
    ELSE LET n == stream[4] + 256 * stream[5]
             body == SubSeq(stream, 8, 7 + n)
         IN  IF /\ stream[1] = 120 /\ stream[2] = 156 /\ stream[3] = 1
                /\ stream[6] = 255 - stream[4] /\ stream[7] = 255 - stream[5]
                /\ Len(stream) = n + 11
                /\ SubSeq(stream, 8 + n, 11 + n) = Adler32Be(body)
             THEN [ok |-> TRUE, val |-> body]
             ELSE [ok |-> FALSE, err |-> "CompressError"]

\* the ASCII code of the base64 digit of a sextet, and back (-1: no digit)
Base64Char(v) ==
    IF v < 26 THEN 65 + v
    ELSE IF v < 52 THEN 97 + (v - 26)
    ELSE IF v < 62 THEN 48 + (v - 52)
    ELSE IF v = 62 THEN 43 ELSE 47
Base64Value(c) ==
    IF c >= 65 /\ c <= 90 THEN c - 65
    ELSE IF c >= 97 /\ c <= 122 THEN c - 97 + 26
    ELSE IF c >= 48 /\ c <= 57 THEN c - 48 + 52
    ELSE IF c = 43 THEN 62
    ELSE IF c = 47 THEN 63 ELSE -1

RECURSIVE base64_encode(_)
\* base64::encode: three bytes to four digits, `=` padding at the end
base64_encode(bytes) ==
    IF bytes = <<>> THEN <<>>
    ELSE IF Len(bytes) = 1
    THEN <<Base64Char(bytes[1] \div 4), Base64Char((bytes[1] % 4) * 16), 61, 61>>
    ELSE IF Len(bytes) = 2
    THEN <<Base64Char(bytes[1] \div 4),
           Base64Char((bytes[1] % 4) * 16 + bytes[2] \div 16),
           Base64Char((bytes[2] % 16) * 4), 61>>
    ELSE <<Base64Char(bytes[1] \div 4),
           Base64Char((bytes[1] % 4) * 16 + bytes[2] \div 16),
           Base64Char((bytes[2] % 16) * 4 + bytes[3] \div 64),
           Base64Char(bytes[3] % 64)>>
         \o base64_encode(SubSeq(bytes, 4, Len(bytes)))

RECURSIVE base64_decode(_)
\* base64::decode: Ok(bytes) or Err for a text that is no padded base64
base64_decode(text) ==
    IF text = <<>> THEN [ok |-> TRUE, val |-> <<>>]
    ELSE IF Len(text) < 4 THEN [ok |-> FALSE, err |-> "InvalidBase64"]
    ELSE LET v == [i \in 1..4 |-> Base64Value(text[i])]
             last == Len(text) = 4
             rest == base64_decode(SubSeq(text, 5, Len(text)))
         IN  IF v[1] < 0 \/ v[2] < 0 THEN [ok |-> FALSE, err |-> "InvalidBase64"]
             ELSE IF last /\ text[3] = 61 /\ text[4] = 61
             THEN [ok |-> TRUE, val |-> <<v[1] * 4 + v[2] \div 16>>]
             ELSE IF v[3] < 0 THEN [ok |-> FALSE, err |-> "InvalidBase64"]
             ELSE IF last /\ text[4] = 61
             THEN [ok |-> TRUE, val |-> <<v[1] * 4 + v[2] \div 16, (v[2] % 16) * 16 + v[3] \div 4>>]
             ELSE IF v[4] < 0 \/ ~rest.ok THEN [ok |-> FALSE, err |-> "InvalidBase64"]
             ELSE [ok |-> TRUE,
                   val |-> <<v[1] * 4 + v[2] \div 16, (v[2] % 16) * 16 + v[3] \div 4,
                             (v[3] % 4) * 64 + v[4]>> \o rest.val]

RECURSIVE Decimal(_)
\* the decimal digits of n, as ASCII codes
Decimal(n) == IF n < 10 THEN <<48 + n>> ELSE Decimal(n \div 10) \o <<48 + (n % 10)>>

\* format!("{version:02}"): zero-padded to at least two digits
format_version(v) == IF v < 10 THEN <<48>> \o Decimal(v) ELSE Decimal(v)

IsDigit(c) == c >= 48 /\ c <= 57

\* SAVE_REGEX.captures(save): group 2 of ^\$([0-9]{2})s(.*)\$e$, or None
captures(text) ==
    IF /\ Len(text) >= 6
       /\ text[1] = 36 /\ IsDigit(text[2]) /\ IsDigit(text[3]) /\ text[4] = 115
       /\ text[Len(text) - 1] = 36 /\ text[Len(text)] = 101
       /\ \A i \in 5..(Len(text) - 2) : text[i] # 10
    THEN Some(SubSeq(text, 5, Len(text) - 2))
    ELSE None

\* encode_from_raw(data, version): cipher, zlib, base64, "$" version "s" .. "$e"
encode_from_raw ==
    /\ save = None
    /\ save' = Some(<<36>> \o format_version(version) \o <<115>>
                    \o base64_encode(deflate(cipher(data))) \o <<36, 101>>)
    /\ UNCHANGED <<data, version, decoded, codecVars, parseVars>>

\* decode_to_raw(save)
decode_to_raw ==
    /\ save # None /\ decoded = None
    /\ decoded' =
          Some(IF captures(save[1]) = None THEN [ok |-> FALSE, err |-> "InvalidSaveString"]
               ELSE LET bytes == base64_decode(captures(save[1])[1])
                    IN  IF ~bytes.ok THEN bytes
                        ELSE LET out == inflate(bytes.val)
                             IN  IF ~out.ok THEN out
                                 ELSE [ok |-> TRUE, val |-> cipher(out.val)])
    /\ UNCHANGED <<data, version, save, codecVars, parseVars>>

\* ---------------------------------------------- raw data for the envelope
MaxRaw == 3
RawBytes == {0, 7, 255}
Versions == {0, 7, 42, 99, 100, 65535}

\* encode_from_raw on some data and version, then decode_to_raw on its result
InitEnvelope ==
    /\ data \in SeqsUpTo(RawBytes, MaxRaw)
    /\ version \in Versions
    /\ save = None /\ decoded = None
    /\ document = NoDocument /\ parse_pc = "idle" /\ partial = <<>> /\ parsed = None
    /\ generated = None
    /\ format = Fmt1 /\ drain = FALSE /\ input = <<>> /\ pos = 0 /\ stack = <<>>
    /\ failing = FALSE /\ ctxBuilds = 0 /\ phase = "done"
    /\ first = None /\ raw = <<>> /\ second = None /\ log = <<>> /\ wlog = <<>>

NextEnvelope ==
    \/ encode_from_raw
    \/ decode_to_raw

SpecEnvelope == InitEnvelope /\ [][NextEnvelope]_vars

\* ------------------------------------------------------------------ claims
FirstReadDone == phase = "decoded"
SecondReadDone == phase = "done" /\ first # None
FieldAt(e) == FieldsOf(format, e.ty)[e.fld]

\* C1: every value a successful read returned is read back unchanged from the
\* bytes that write emits for it
C1_RoundTrip == SecondReadDone => second = first

\* C2: a read pass in which some base read (of a field's bytes, or of the
\* bytes an advance_if_false skip reserves) failed returns no record
C2_WholeDecodeFailure ==
    (FirstReadDone \/ (SecondReadDone /\ second # None)) => \A i \in DOMAIN log : log[i].ok

\* the wlog entries of field fld of struct ty
WritesOf(ty, fld) == SelectSeq(wlog, LAMBDA e : e.ty = ty /\ e.fld = fld)

HasWritten == phase \in {"encoded", "reread"} \/ SecondReadDone

IsAdvancingPrimitive(item) ==
    /\ item.condition # None
    /\ item.condition[1].advance_if_false
    /\ IsPrimitive(item.data_type)

\* write: every block emitted for an absent advance_if_false primitive is w
\* zero bytes, and an absent root field of that shape gets exactly one block
C3_WriteAbsent ==
    HasWritten =>
        /\ \A i \in DOMAIN wlog :
              wlog[i].kind = "zeros" /\ IsPrimitive(FieldAt(wlog[i]).data_type)
              => /\ Len(wlog[i].bytes) = PrimSize(FieldAt(wlog[i]).data_type)
                 /\ \A j \in DOMAIN wlog[i].bytes : wlog[i].bytes[j] = 0
        /\ \A i \in DOMAIN format.items :
              IsAdvancingPrimitive(format.items[i]) /\ first[1][i] = None
              => /\ Len(WritesOf(RootName, i)) = 1
                 /\ WritesOf(RootName, i)[1].kind = "zeros"

\* the innermost read() is at an advance_if_false primitive whose condition is false
AtFalsePrimitive ==
    /\ AtField
    /\ IsAdvancingPrimitive(Cur)
    /\ ~CondTrue(Cur)

\* read: the step taken there moves the cursor by exactly w and stores None,
\* or fails the read() when fewer than w bytes are left
C3_ReadSkips ==
    AtFalsePrimitive =>
        IF pos + PrimSize(Cur.data_type) <= Len(input)
        THEN /\ pos' = pos + PrimSize(Cur.data_type)
             /\ ~failing'
             /\ Len(stack') = Len(stack)
             /\ stack'[Len(stack)].idx = Top.idx + 1
             /\ stack'[Len(stack)].vals = Append(Top.vals, None)
        ELSE failing'

\* C3: with advance_if_false, an absent primitive of width w is written as
\* exactly w zero bytes, and a read whose condition is false moves the cursor
\* by exactly w bytes and yields absent, whatever those bytes hold
C3_DeterministicWidth == [](C3_WriteAbsent) /\ [][C3_ReadSkips]_vars

\* C3 witness: a record whose skipped slot held a nonzero byte has been read
\* and written back with a zero block in that slot
C3_Witness ==
    /\ phase = "encoded"
    /\ \E i \in DOMAIN log :
          /\ log[i].kind = "skip" /\ log[i].ok
          /\ IsPrimitive(FieldAt(log[i]).data_type)
          /\ input[log[i].at + 1] # 0
    /\ \E i \in DOMAIN wlog :
          wlog[i].kind = "zeros" /\ IsPrimitive(FieldAt(wlog[i]).data_type)

\* the context a root record x carries: its leading context fields
ContextOf(fmt, x) == SubSeq(x, 1, ContextLen(fmt.items))

\* every conditional field of val is present exactly when its condition holds
\* and every repeated field holds as many elements as its count expression says
RECURSIVE Consistent(_, _, _, _)
Consistent(fmt, ty, val, ctx) ==
    \A i \in DOMAIN FieldsOf(fmt, ty) :
        LET item == FieldsOf(fmt, ty)[i]
            v == val[i]
            n == EvalRef(item.repetition[1].count, val, ctx)
        IN  /\ item.condition # None
               => (v # None) = EvalCond(item.condition[1].expression, val, ctx)
            /\ item.repetition # None => Len(v) = Max(0, n)
            /\ ~IsPrimitive(item.data_type)
               => IF item.repetition # None
                  THEN \A j \in DOMAIN v : Consistent(fmt, item.data_type, v[j], ctx)
                  ELSE IF item.condition # None
                  THEN v # None => Consistent(fmt, item.data_type, v[1], ctx)
                  ELSE Consistent(fmt, item.data_type, v, ctx)

\* val with every primitive value blanked: which conditional fields are
\* present and how many elements each collection holds
RECURSIVE Presence(_, _, _)
Presence(fmt, ty, val) ==
    [i \in DOMAIN FieldsOf(fmt, ty) |->
        LET item == FieldsOf(fmt, ty)[i]
            v == val[i]
        IN  IF IsPrimitive(item.data_type)
            THEN IF item.repetition # None THEN [j \in DOMAIN v |-> 0]
                 ELSE IF item.condition # None THEN [j \in DOMAIN v |-> 0]
                 ELSE 0
            ELSE IF item.repetition # None \/ item.condition # None
                 THEN [j \in DOMAIN v |-> Presence(fmt, item.data_type, v[j])]
                 ELSE Presence(fmt, item.data_type, v)]

\* where write put each field's bytes, and where the read took them from
WriteOffsets == [i \in DOMAIN wlog |-> <<wlog[i].ty, wlog[i].fld, wlog[i].at, Len(wlog[i].bytes)>>]
ReadOffsets == [i \in DOMAIN log |-> <<log[i].ty, log[i].fld, log[i].at, log[i].w>>]

MirrorsWrite ==
    /\ Presence(format, RootName, second[1]) = Presence(format, RootName, first[1])
    /\ ReadOffsets = WriteOffsets

\* C4 as claimed: whatever record was written, a read of the emitted bytes
\* that returns a record finds the same conditional fields present and reads
\* every field at the offset write put it
C4_AnyRecordMirrors == (SecondReadDone /\ second # None) => MirrorsWrite

\* C4 amended: for a record whose conditional fields are present exactly when
\* their conditions hold and whose collections have the length their count
\* expressions give, the read of the emitted bytes succeeds, finds the same
\* conditional fields present and reads every field at the offset write put it
C4_ConsistentRecordMirrors ==
    (SecondReadDone /\ Consistent(format, RootName, first[1], ContextOf(format, first[1])))
    => (second # None /\ MirrorsWrite)

\* C4 witness: a consistent record with an absent conditional field that is
\* followed by a later field, and one with a present conditional field
C4_Witness ==
    /\ SecondReadDone
    /\ Consistent(format, RootName, first[1], ContextOf(format, first[1]))
    /\ \E i \in DOMAIN format.items :
          /\ format.items[i].condition # None
          /\ format.items[i].condition[1].advance_if_false
          /\ first[1][i] = None
          /\ i < Len(format.items)
          /\ Len(WritesOf(RootName, i + 1)) > 0

\* C6: write emits every stored element of a repeated primitive field once, in
\* collection order, whatever the count expression evaluates to on the record
C6_WriteUsesCollection ==
    HasWritten =>
        \A i \in DOMAIN format.items :
            format.items[i].repetition # None /\ IsPrimitive(format.items[i].data_type)
            => /\ Len(WritesOf(RootName, i)) = Len(first[1][i])
               /\ \A j \in DOMAIN first[1][i] :
                     WritesOf(RootName, i)[j].bytes
                        = ToBytes(format.items[i].data_type, format.endianness, first[1][i][j])

\* C6 witness: a collection of two different elements was written although
\* the count expression evaluates to another number
C6_Witness ==
    /\ HasWritten
    /\ \E i \in DOMAIN format.items :
          /\ format.items[i].repetition # None /\ IsPrimitive(format.items[i].data_type)
          /\ Len(first[1][i]) = 2
          /\ first[1][i][1] # first[1][i][2]
          /\ EvalRef(format.items[i].repetition[1].count, first[1], ContextOf(format, first[1])) # 2

\* the log entries of the reads a frame at depth d made for its field fld
ReadsOf(d, fld) == SelectSeq(log, LAMBDA e : e.depth = d /\ e.fld = fld)

\* the value a successful log entry of a primitive read produced
ValueRead(e) ==
    LET bs == SubSeq(input, e.at + 1, e.to)
    IN  IF FieldAt(e).data_type = "bool" THEN bs[1] # 0
        ELSE FromBytes(FieldAt(e).data_type, format.endianness, bs)

\* every collection a read() has stored holds exactly n elements, n the value
\* of its count expression, and a collection in the making holds at most n
C5_Counts ==
    \A d \in DOMAIN stack :
        LET f == stack[d]
            items == FieldsOf(format, f.ty)
        IN  /\ \A j \in DOMAIN f.vals :
                  items[j].repetition # None
                  => Len(f.vals[j]) = Max(0, EvalRef(items[j].repetition[1].count, f.vals, f.root))
            /\ (f.idx <= Len(items) /\ items[f.idx].repetition # None /\ ~failing)
               => Len(f.acc) <= Max(0, EvalRef(items[f.idx].repetition[1].count, f.vals, f.root))

\* a stored collection of primitives at the root came from exactly that many
\* reads, all successful, of consecutive slots of the stream, stored in the
\* order they were read; an empty one came from no read at all
C5_InOrder ==
    (Reading /\ stack # <<>>) =>
        \A j \in DOMAIN stack[1].vals :
            (format.items[j].repetition # None /\ IsPrimitive(format.items[j].data_type))
            => LET es == ReadsOf(1, j)
                   xs == stack[1].vals[j]
               IN  /\ Len(es) = Len(xs)
                   /\ \A k \in DOMAIN es :
                         /\ es[k].ok
                         /\ xs[k] = ValueRead(es[k])
                         /\ k > 1 => es[k].at = es[k - 1].to

\* an element read that fails, or an element's read() that returns None, makes
\* the enclosing read() return None; nothing is stored for the field
C5_ElementFailure ==
    /\ (AtField /\ Cur.repetition # None /\ IsPrimitive(Cur.data_type) /\ MoreToRead(Cur)
        /\ pos + PrimSize(Cur.data_type) > Len(input))
       => (failing' /\ stack' = stack)
    /\ (Reading /\ failing /\ Len(stack) >= 2
        /\ FieldsOf(format, stack[Len(stack) - 1].ty)[stack[Len(stack) - 1].idx].repetition # None)
       => (failing' /\ stack' = SubSeq(stack, 1, Len(stack) - 1))
    /\ (Reading /\ failing /\ Len(stack) = 1) => (stack' = <<>> /\ phase' = "done")

\* C5: a repeated field whose count expression evaluates to n decodes to n
\* elements read in order and stored in that order (none, and no cursor
\* movement, for n = 0), and one failing element read fails the whole read
C5_RepetitionCount == [](C5_Counts /\ C5_InOrder) /\ [][C5_ElementFailure]_vars

\* C5 witness: a pass stored a collection of two different elements, and
\* (in another run) a pass stored an empty one for n = 0
C5_Witness ==
    /\ phase = "decoded"
    /\ \E j \in DOMAIN format.items :
          /\ format.items[j].repetition # None
          /\ Len(first[1][j]) = 2
          /\ first[1][j][1] # first[1][j][2]

\* C5 witness of the failure case: an element read has just failed after an
\* earlier element of the same field was read
C5_WitnessFailure ==
    /\ Reading /\ failing /\ stack # <<>>
    /\ Top.idx <= Len(TopFields)
    /\ Cur.repetition # None
    /\ Len(Top.acc) > 0

\* the base read of a bool takes one byte and yields whether it is nonzero
C7_ReadBool ==
    (AtField /\ Cur.data_type = "bool" /\ CondTrue(Cur) /\ MoreToRead(Cur) /\ pos < Len(input))
    => /\ pos' = pos + 1
       /\ ~failing'
       /\ LET t == stack'[Len(stack)]
              b == input[pos + 1] # 0
          IN  IF Cur.repetition # None THEN t.acc = Append(Top.acc, b)
              ELSE IF Cur.condition # None THEN t.vals = Append(Top.vals, Some(b))
              ELSE t.vals = Append(Top.vals, b)

\* the base write of a bool emits the one byte 1 for true and 0 for false
C7_WriteBool ==
    HasWritten =>
        /\ \A i \in DOMAIN wlog :
              (wlog[i].kind = "value" /\ FieldAt(wlog[i]).data_type = "bool")
              => wlog[i].bytes \in {<<0>>, <<1>>}
        /\ \A j \in DOMAIN format.items :
              (format.items[j].data_type = "bool" /\ format.items[j].repetition = None)
              => LET v == IF format.items[j].condition # None THEN first[1][j]
                          ELSE Some(first[1][j])
                 IN  v # None
                     => /\ Len(WritesOf(RootName, j)) = 1
                        /\ WritesOf(RootName, j)[1].bytes = <<IF v[1] THEN 1 ELSE 0>>

\* C7: a bool is read from exactly one byte, false for 0x00 and true for any
\* other value, and is written as exactly the byte 0x01 or 0x00
C7_BoolCanonical == [](C7_WriteBool) /\ [][C7_ReadBool]_vars

\* C7 witness: a bool read from the byte 0x02 was written back as 0x01
C7_Witness ==
    /\ phase = "encoded"
    /\ \E i \in DOMAIN log, j \in DOMAIN wlog :
          /\ log[i].kind = "read" /\ log[i].ok /\ log[i].depth = 1
          /\ FieldAt(log[i]).data_type = "bool"
          /\ input[log[i].at + 1] = 2
          /\ wlog[j].ty = RootName /\ wlog[j].fld = log[i].fld
          /\ wlog[j].bytes = <<1>>

\* the longest prefix of unconditional, non-repeated fields whose type is one
\* of the scalar kinds, bool included
RECURSIVE ScalarPrefix(_)
ScalarPrefix(items) ==
    IF items = <<>> THEN 0
    ELSE IF Head(items).condition = None /\ Head(items).repetition = None
            /\ IsPrimitive(Head(items).data_type)
         THEN 1 + ScalarPrefix(Tail(items))
         ELSE 0

\* C8: the context a root read() builds holds the longest prefix of root
\* fields that are unconditional, non-repeated and of a primitive type, the
\* primitive types being the integers, f32, f64 and bool
C8_ContextBoundary ==
    (Reading /\ stack # <<>> /\ ctxBuilds > 0)
    => Len(stack[1].root) = ScalarPrefix(format.items)

\* the context is built once per pass, after the k context fields and before
\* anything else is read
C9_BuiltOnce ==
    (Reading /\ stack # <<>>) =>
        /\ ctxBuilds <= 1
        /\ ctxBuilds = 1 => stack[1].idx > ContextLen(format.items)
        /\ ctxBuilds = 0 =>
              /\ Len(stack) = 1
              /\ stack[1].idx <= ContextLen(format.items) + 1
              /\ \A i \in DOMAIN log : log[i].depth = 1 /\ log[i].fld <= ContextLen(format.items)

\* every read() below the root holds the root's context, which is the values
\* of root fields 0..k
C9_Shared ==
    (Reading /\ stack # <<>> /\ ctxBuilds = 1) =>
        /\ stack[1].root = SubSeq(stack[1].vals, 1, ContextLen(format.items))
        /\ \A d \in DOMAIN stack : stack[d].root = stack[1].root

\* no step of a pass changes the context once it is built
C9_Stable ==
    (ctxBuilds = 1 /\ ctxBuilds' = 1 /\ stack # <<>> /\ stack' # <<>>)
    => stack'[1].root = stack[1].root

\* C9: one root read() builds its context exactly once, after the context
\* fields and before any other field; every nested read() at any depth holds
\* that context; it equals root fields 0..k and never changes during the pass
C9_SingleSharedContext == [](C9_BuiltOnce /\ C9_Shared) /\ [][C9_Stable]_vars

\* C9 witness: a read() two levels below the root holds a non-empty context
\* that differs from the fields its caller has read
C9_Witness ==
    /\ Reading /\ Len(stack) = 3
    /\ stack[3].root # <<>>
    /\ stack[2].vals # stack[3].root
    /\ ctxBuilds = 1

\* a field descriptor parse_item accepts: a mapping whose id and type are strings that parse
WellFormedDescriptor(v) ==
    /\ v.kind = "map"
    /\ and_then(and_then(get(v.m, "id"), as_str), parse_ident) # None
    /\ and_then(and_then(get(v.m, "type"), as_str), parse_type) # None

\* the field lists of the document: items, and every list under types
FieldLists ==
    (IF and_then(get(document, "items"), as_sequence) = None THEN {}
     ELSE {document["items"].xs})
    \cup (IF and_then(get(document, "types"), as_mapping) = None THEN {}
          ELSE {document["types"].m[k].xs :
                    k \in {n \in DOMAIN document["types"].m : document["types"].m[n].kind = "seq"}})

\* C10: parse_file returns a schema only for a document whose every field
\* descriptor, in items and in each list under types, is a mapping with an id
\* and a type that parse
C10_NoPartialSchema ==
    (parse_pc = "done" /\ parsed # None)
    => \A xs \in FieldLists : \A i \in DOMAIN xs : WellFormedDescriptor(xs[i])

\* the `if` of a descriptor, where it has one, is a string that parses as an
\* expression, and its `repeat`, where it has one, is Count(expr) with an
\* expression that parses
ParsableModifiers(v) ==
    /\ get(v.m, "if") # None
       => and_then(as_str(v.m["if"]), parse_expr_binary) # None
    /\ get(v.m, "repeat") # None
       => and_then(as_str(v.m["repeat"]), parse_repetition) # None

\* C11: parse_file returns a schema only for a document in which every field
\* descriptor it keeps has an `if` that parses and a `repeat` of kind Count
\* whose count expression parses; no field is kept with its condition or its
\* repetition dropped
C11_NoDroppedModifier ==
    (parse_pc = "done" /\ parsed # None)
    => \A xs \in FieldLists : \A i \in DOMAIN xs :
          WellFormedDescriptor(xs[i]) => ParsableModifiers(xs[i])

\* a value parse_sequence maps to one field per entry: a sequence of
\* descriptors that parse_item accepts whole
ValidFieldList(v) ==
    /\ v.kind = "seq"
    /\ \A i \in DOMAIN v.xs : WellFormedDescriptor(v.xs[i]) /\ ParsableModifiers(v.xs[i])

\* the types entry, where there is one, is a mapping of names to valid field lists
ValidTypes ==
    get(document, "types") # None
    => /\ document["types"].kind = "map"
       /\ \A k \in DOMAIN document["types"].m :
             parse_ident(<<k>>) # None /\ ValidFieldList(document["types"].m[k])

\* C12: parse_file returns a schema for every document with a valid items
\* sequence, with Little endianness where meta is missing and no types where
\* types is missing, and returns none for a document without items
C12_OptionalKeys ==
    parse_pc = "done" =>
        /\ (get(document, "items") # None /\ ValidFieldList(document["items"]) /\ ValidTypes)
           => /\ parsed # None
              /\ get(document, "meta") = None => parsed[1].endianness = "Little"
              /\ get(document, "types") = None => DOMAIN parsed[1].types = {}
        /\ get(document, "items") = None => parsed = None

\* the meta entry is a mapping whose endian key holds the string "be"
MetaSaysBe ==
    /\ document["meta"].kind = "map"
    /\ "endian" \in DOMAIN document["meta"].m
    /\ document["meta"].m["endian"] = Str(<<"be">>)

C13_WitnessBig == partial # <<>> /\ partial[1] = "Big"

\* the types whose read() the emitted read() of some struct calls
CalledTypes ==
    UNION {{generated[1][name].read[i].stmt.of :
                i \in {j \in DOMAIN generated[1][name].read :
                          generated[1][name].read[j].stmt.call = "read"}} :
           name \in DOMAIN generated[1]}

\* C14: format_source emits read() and write() only for a schema whose every
\* field type is a primitive or a type declared under types
C14_UndeclaredTypeRejected ==
    (parse_pc = "expanded" /\ generated # None)
    => CalledTypes \subseteq DOMAIN generated[1]

RECURSIVE DocumentIds(_)
\* the ids of the descriptors of a field list that parse_item accepts, in the
\* order in which the document lists them
DocumentIds(xs) ==
    IF xs = <<>> THEN <<>>
    ELSE (IF WellFormedDescriptor(Head(xs)) THEN <<Head(xs).m["id"].s[1]>> ELSE <<>>)
         \o DocumentIds(Tail(xs))

\* the field list of the document an emitted struct was generated from
ListOf(name) ==
    IF name = RootName THEN document["items"].xs ELSE document["types"].m[name].xs

\* the ids of a sequence of emitted statements, the _root binding left out
StatementIds(stmts) ==
    LET fields == SelectSeq(stmts, LAMBDA st : st.id # "_root")
    IN  [i \in DOMAIN fields |-> fields[i].id]

\* C15: every emitted struct declares, reads and writes its fields in the
\* order in which the document lists their descriptors; the root's _root
\* binding splits the reads without reordering them
C15_WireOrder ==
    (parse_pc = "expanded" /\ generated # None) =>
        \A name \in DOMAIN generated[1] :
            /\ generated[1][name].ids = DocumentIds(ListOf(name))
            /\ StatementIds(generated[1][name].read) = DocumentIds(ListOf(name))
            /\ StatementIds(generated[1][name].write) = DocumentIds(ListOf(name))

\* C15 witness: a root of two different fields was emitted with the _root
\* binding between them, together with a declared composite that has a field
C15_Witness ==
    /\ parse_pc = "expanded" /\ generated # None
    /\ Len(generated[1][RootName].ids) = 2
    /\ generated[1][RootName].ids[1] # generated[1][RootName].ids[2]
    /\ Len(generated[1][RootName].context) = 1
    /\ \E name \in DOMAIN generated[1] : name # RootName /\ generated[1][name].ids # <<>>

\* the number of bytes the last write put into the sink
BytesWritten ==
    IF wlog = <<>> THEN 0 ELSE wlog[Len(wlog)].at + Len(wlog[Len(wlog)].bytes)

\* C16: a record that read() returned after consuming c bytes of a stream,
\* with or without further bytes behind it, is written as exactly c bytes
C16_WritesWhatWasConsumed ==
    phase = "encoded" => BytesWritten = pos

\* C17: decode_to_raw of the string encode_from_raw returned for data and any
\* u16 version succeeds and returns data
C17_EnvelopeRoundTrip ==
    decoded # None => (decoded[1].ok /\ decoded[1].val = data)

\* the same for the versions that two digits can hold
C17_TwoDigitRoundTrip ==
    (decoded # None /\ version < 100) => (decoded[1].ok /\ decoded[1].val = data)

\* the reads of a pass took disjoint stretches of the stream, in stream order
C18_NoReread ==
    \A i, j \in DOMAIN log :
        i < j => /\ log[i].to <= log[j].at
                 /\ log[i].ok => log[i].at + log[i].w = log[i].to

\* one step of a pass: the cursor does not go back; a false condition leaves
\* it in place without advance_if_false and moves it forward by the reserved
\* size with it (or fails the read() when the stream is too short); a
\* repeated field of count 0 leaves it in place
C18_Step ==
    /\ (Reading /\ phase' = phase) => pos' >= pos
    /\ (AtField /\ ~CondTrue(Cur))
       => IF ~Cur.condition[1].advance_if_false
          THEN pos' = pos /\ ~failing'
          ELSE IF pos + size_of(format, Cur.data_type) <= Len(input)
               THEN pos' = pos + size_of(format, Cur.data_type) /\ pos' > pos
               ELSE failing'
    /\ (AtField /\ Cur.repetition # None /\ CondTrue(Cur) /\ RepCount(Cur) <= 0)
       => (pos' = pos /\ ~failing')

\* C18: in a decode pass the cursor never decreases and no byte is read
\* twice; a false condition leaves the cursor unchanged without
\* advance_if_false and moves it forward with it; count 0 leaves it unchanged
C18_NoBacktracking == [](C18_NoReread) /\ [][C18_Step]_vars

\* C18 witness: a pass skipped a false conditional field without
\* advance_if_false and read the next field where the previous one ended
C18_Witness ==
    /\ FirstReadDone
    /\ \E j \in DOMAIN log :
          /\ j + 1 \in DOMAIN log
          /\ log[j].depth = 1 /\ log[j + 1].depth = 1
          /\ log[j + 1].fld = log[j].fld + 2
          /\ ~format.items[log[j].fld + 1].condition[1].advance_if_false
          /\ first[1][log[j].fld + 1] = None
          /\ log[j + 1].at = log[j].to
          /\ log[j + 1].ok

\* C19: a write to the sink that fails is the last write of that encode, and
\* the encode returns failure; this holds wherever the failing write sits (a
\* plain field, a conditional field, an element, a nested composite)
C19_WholeEncodeFailure ==
    phase \in {"encoded", "write_failed"} =>
        \A i \in DOMAIN wlog : ~wlog[i].ok => (i = Len(wlog) /\ phase = "write_failed")

\* C19 witness: a write inside a nested composite failed after earlier writes
\* had succeeded, while the root still had a field to write
C19_Witness ==
    /\ phase = "write_failed"
    /\ Len(wlog) >= 2
    /\ wlog[Len(wlog)].ty # RootName
    /\ \E i \in DOMAIN format.items :
          /\ i < Len(format.items)
          /\ ~IsPrimitive(format.items[i].data_type)
          /\ \A j \in DOMAIN wlog : wlog[j].ty = RootName => wlog[j].fld < i

====
